---------------------------- MODULE Spec2Model ----------------------------
(***************************************************************************)
(* Rule-evaluation engine of app/lpp.py: PathResolver, the date and        *)
(* number helpers, the trigger matcher, the validators and                 *)
(* RuleDispatcher.evaluate.                                                *)
(*                                                                         *)
(* Python values are tagged records.  A Python str is a sequence of        *)
(* one-character strings, so that strip(), lower(), startswith(), split()  *)
(* slicing, float() and strptime() are computed character by character.    *)
(* A Python float is an integer number of hundredths (0.95 is 95, 95.0 is  *)
(* 9500): every number of the model has at most two decimals, so x * 100   *)
(* is exact.  Section names, field names, validator names and messages are *)
(* TLA+ strings: the code only looks them up or copies them.               *)
(***************************************************************************)
EXTENDS Integers, Sequences, FiniteSets, TLC

(***************************************************************************)
(* Python values                                                           *)
(***************************************************************************)
PyNone == [t |-> "None"]
PyStr(s) == [t |-> "str", s |-> s]
PyInt(n) == [t |-> "int", n |-> n]
PyFloat(h) == [t |-> "float", h |-> h]
PyBool(b) == [t |-> "bool", b |-> b]
PyDict(d) == [t |-> "dict", d |-> d]
PyList(l) == [t |-> "list", l |-> l]
PyDate(y, m, d) == [t |-> "datetime", y |-> y, m |-> m, d |-> d]

EmptyMap == [k \in {} |-> PyNone]

\* bool(x): Python truthiness
Truthy(v) ==
    CASE v.t = "None" -> FALSE
      [] v.t = "str" -> Len(v.s) > 0
      [] v.t = "int" -> v.n # 0
      [] v.t = "float" -> v.h # 0
      [] v.t = "bool" -> v.b
      [] v.t = "dict" -> DOMAIN v.d # {}
      [] v.t = "list" -> Len(v.l) > 0
      [] OTHER -> TRUE

(***************************************************************************)
(* Characters and str methods                                              *)
(***************************************************************************)
UpperChars == <<"A","B","C","D","E","F","G","H","I","J","K","L","M",
                "N","O","P","Q","R","S","T","U","V","W","X","Y","Z">>
LowerChars == <<"a","b","c","d","e","f","g","h","i","j","k","l","m",
                "n","o","p","q","r","s","t","u","v","w","x","y","z">>
DigitChars == <<"0","1","2","3","4","5","6","7","8","9">>

IndexIn(c, q) == IF \E i \in 1..Len(q) : q[i] = c
                 THEN CHOOSE i \in 1..Len(q) : q[i] = c
                 ELSE 0

IsSpace(c) == c \in {" ", "\t", "\n"}
IsDigit(c) == IndexIn(c, DigitChars) > 0
IsAlnum(c) == IsDigit(c) \/ IndexIn(c, UpperChars) > 0 \/ IndexIn(c, LowerChars) > 0
DigitVal(c) == IndexIn(c, DigitChars) - 1

LowerChar(c) == IF IndexIn(c, UpperChars) > 0
                THEN LowerChars[IndexIn(c, UpperChars)]
                ELSE c

\* s.lower()
Lower(s) == [i \in 1..Len(s) |-> LowerChar(s[i])]

RECURSIVE LStrip(_)
LStrip(s) == IF Len(s) > 0 /\ IsSpace(s[1]) THEN LStrip(Tail(s)) ELSE s

RECURSIVE RStrip(_)
RStrip(s) == IF Len(s) > 0 /\ IsSpace(s[Len(s)])
             THEN RStrip(SubSeq(s, 1, Len(s) - 1))
             ELSE s

\* s.strip()
Strip(s) == RStrip(LStrip(s))

\* s.startswith(p)
StartsWith(s, p) == Len(s) >= Len(p) /\ SubSeq(s, 1, Len(p)) = p

\* s[-n:]
LastN(s, n) == IF Len(s) <= n THEN s ELSE SubSeq(s, Len(s) - n + 1, Len(s))

\* s.split(sep) for a one-character separator
RECURSIVE SplitAcc(_, _, _)
SplitAcc(s, sep, cur) ==
    IF Len(s) = 0 THEN <<cur>>
    ELSE IF s[1] = sep THEN <<cur>> \o SplitAcc(Tail(s), sep, <<>>)
    ELSE SplitAcc(Tail(s), sep, Append(cur, s[1]))

Split(s, sep) == SplitAcc(s, sep, <<>>)

AllDigits(s) == Len(s) > 0 /\ \A i \in 1..Len(s) : IsDigit(s[i])

RECURSIVE DigitsVal(_)
DigitsVal(s) == IF Len(s) = 0 THEN 0
                ELSE 10 * DigitsVal(SubSeq(s, 1, Len(s) - 1)) + DigitVal(s[Len(s)])

RECURSIVE NatToStr(_)
NatToStr(n) == IF n < 10 THEN <<DigitChars[n + 1]>>
               ELSE NatToStr(n \div 10) \o <<DigitChars[(n % 10) + 1]>>

Abs(n) == IF n < 0 THEN 0 - n ELSE n

\* repr of a float given in hundredths: 9500 is "95.0", 95 is "0.95", 50 is "0.5"
FloatToStr(h) ==
    LET a == Abs(h)
        frac == a % 100
    IN  (IF h < 0 THEN <<"-">> ELSE <<>>) \o NatToStr(a \div 100) \o <<".">> \o
        (IF frac % 10 = 0 THEN NatToStr(frac \div 10)
         ELSE <<DigitChars[(frac \div 10) + 1], DigitChars[(frac % 10) + 1]>>)

\* str(v) for the scalar values (the model applies str to no mapping or sequence)
Str(v) ==
    CASE v.t = "str" -> v.s
      [] v.t = "None" -> <<"N","o","n","e">>
      [] v.t = "int" -> (IF v.n < 0 THEN <<"-">> ELSE <<>>) \o NatToStr(Abs(v.n))
      [] v.t = "float" -> FloatToStr(v.h)
      [] v.t = "bool" -> IF v.b THEN <<"T","r","u","e">> ELSE <<"F","a","l","s","e">>

(***************************************************************************)
(* float(x).  The result is [ok |-> TRUE, h |-> hundredths], or            *)
(* [ok |-> FALSE] where Python raises ValueError or TypeError.  A str is   *)
(* stripped, then an optional sign, then digits with an optional point.    *)
(* Exponents, "inf", "nan" and underscores are outside the model's         *)
(* alphabet of numeric strings.                                            *)
(***************************************************************************)
NoFloat == [ok |-> FALSE]
OkFloat(h) == [ok |-> TRUE, h |-> h]

\* the fraction digits as hundredths: "9" is 90, "95" is 95, "" is 0
FracHundredths(f) ==
    IF Len(f) = 0 THEN 0
    ELSE IF Len(f) = 1 THEN 10 * DigitVal(f[1])
    ELSE 10 * DigitVal(f[1]) + DigitVal(f[2])

UnsignedFloat(s) ==
    LET parts == Split(s, ".")
    IN  IF Len(parts) = 1
        THEN IF AllDigits(parts[1]) THEN OkFloat(100 * DigitsVal(parts[1])) ELSE NoFloat
        ELSE IF Len(parts) = 2
        THEN LET ip == parts[1]
                 fp == parts[2]
             IN  IF /\ (Len(ip) = 0 \/ AllDigits(ip))
                    /\ (Len(fp) = 0 \/ AllDigits(fp))
                    /\ Len(ip) + Len(fp) > 0
                 THEN OkFloat(100 * DigitsVal(ip) + FracHundredths(fp))
                 ELSE NoFloat
        ELSE NoFloat

StrToFloat(s) ==
    LET u == Strip(s)
    IN  IF Len(u) = 0 THEN NoFloat
        ELSE IF u[1] = "-"
        THEN LET r == UnsignedFloat(Tail(u))
             IN IF r.ok THEN OkFloat(0 - r.h) ELSE NoFloat
        ELSE IF u[1] = "+" THEN UnsignedFloat(Tail(u))
        ELSE UnsignedFloat(u)

ToFloat(v) ==
    CASE v.t = "str" -> StrToFloat(v.s)
      [] v.t = "int" -> OkFloat(100 * v.n)
      [] v.t = "float" -> OkFloat(v.h)
      [] v.t = "bool" -> OkFloat(IF v.b THEN 100 ELSE 0)
      [] OTHER -> NoFloat

(***************************************************************************)
(* PathResolver.  The field-path configuration maps a section name to a    *)
(* mapping from field name to [path, default]; every configured field has  *)
(* a path string.  The keys of a mapping are TLA+ strings.                 *)
(***************************************************************************)
\* the key of a mapping (a TLA+ string) that a str of characters spells
RECURSIVE Join(_)
Join(q) == IF Len(q) = 0 THEN "" ELSE q[1] \o Join(Tail(q))

\* Walk returning the value found even when it is None (the "is not None" test lost)
RECURSIVE WalkKeepsNull(_, _, _)
WalkKeepsNull(cur, parts, default) ==
    IF Len(parts) = 0 THEN cur
    ELSE IF cur.t # "dict" THEN default
    ELSE IF Join(parts[1]) \notin DOMAIN cur.d THEN default
    ELSE WalkKeepsNull(cur.d[Join(parts[1])], Tail(parts), default)

\* the for loop of resolve: walk the path segments from cur
RECURSIVE Walk(_, _, _)
Walk(cur, parts, default) ==
    IF Len(parts) = 0
    THEN IF cur.t # "None" THEN cur ELSE default
    ELSE IF cur.t # "dict" THEN default
    ELSE IF Join(parts[1]) \notin DOMAIN cur.d THEN default
    ELSE Walk(cur.d[Join(parts[1])], Tail(parts), default)

\* context.get(section)
SectionOf(ctx, section) == IF section \in DOMAIN ctx THEN ctx[section] ELSE PyNone

\* self.fields.get(section, {}).get(name) is falsy
NoConfig(fields, section, name) ==
    \/ section \notin DOMAIN fields
    \/ name \notin DOMAIN fields[section]

resolve(fields, ctx, section, name) ==
    IF NoConfig(fields, section, name) THEN PyNone
    ELSE LET cfg == fields[section][name]
         IN  Walk(SectionOf(ctx, section), Split(cfg.path, "."), cfg.default)

(***************************************************************************)
(* Date helpers.  parse_date returns a datetime value or PyNone.           *)
(***************************************************************************)
IsLeap(y) == (y % 4 = 0 /\ y % 100 # 0) \/ y % 400 = 0

DaysInMonth(y, m) ==
    IF m = 2 THEN (IF IsLeap(y) THEN 29 ELSE 28)
    ELSE IF m \in {4, 6, 9, 11} THEN 30 ELSE 31

\* strptime's %Y: exactly four digits
FieldY(s) == Len(s) = 4 /\ AllDigits(s)
\* strptime's %m: 1[0-2] | 0[1-9] | [1-9]
FieldM(s) == Len(s) \in {1, 2} /\ AllDigits(s) /\ DigitsVal(s) \in 1..12
\* strptime's %d: 3[01] | [12]\d | 0[1-9] | [1-9]
FieldD(s) == Len(s) \in {1, 2} /\ AllDigits(s) /\ DigitsVal(s) \in 1..31

\* datetime.strptime(s, fmt) for a format of three fields around one separator;
\* order is the place of year, month and day among the three fields
Strptime(s, sep, yi, mi, di) ==
    LET p == Split(s, sep)
    IN  IF /\ Len(p) = 3
           /\ FieldY(p[yi]) /\ FieldM(p[mi]) /\ FieldD(p[di])
           /\ DigitsVal(p[yi]) >= 1
           /\ DigitsVal(p[di]) <= DaysInMonth(DigitsVal(p[yi]), DigitsVal(p[mi]))
        THEN PyDate(DigitsVal(p[yi]), DigitsVal(p[mi]), DigitsVal(p[di]))
        ELSE PyNone

\* SUPPORTED_FORMATS, in order: [separator, year place, month place, day place]
SUPPORTED_FORMATS ==
    << [sep |-> "-", yi |-> 3, mi |-> 1, di |-> 2],
       [sep |-> "-", yi |-> 1, mi |-> 2, di |-> 3],
       [sep |-> "-", yi |-> 3, mi |-> 2, di |-> 1],
       [sep |-> "/", yi |-> 3, mi |-> 1, di |-> 2],
       [sep |-> "/", yi |-> 1, mi |-> 2, di |-> 3] >>

\* dateutil's parser.parse, reached when no format fits.  A library call: the
\* strings of the model that get here (words, numerals that are no calendar
\* date) hold no date dateutil accepts, and it raises.
parser_parse(s) == PyNone

RECURSIVE TryFormats(_, _)
TryFormats(s, i) ==
    IF i > Len(SUPPORTED_FORMATS) THEN parser_parse(s)
    ELSE LET f == SUPPORTED_FORMATS[i]
             r == Strptime(s, f.sep, f.yi, f.mi, f.di)
         IN  IF r.t = "datetime" THEN r ELSE TryFormats(s, i + 1)

parse_date(value) ==
    IF ~Truthy(value) THEN PyNone
    ELSE IF value.t = "datetime" THEN value
    ELSE TryFormats(Strip(Str(value)), 1)

\* months_between(d1, d2): [ok |-> TRUE, n |-> months], or [ok |-> FALSE] for
\* the ValueError.  clock is datetime.now(), read when d2 is None.
MonthsRaise == [ok |-> FALSE]

months_between(d1, d2, clock) ==
    LET p1 == parse_date(d1)
        p2 == IF d2.t = "None" THEN clock ELSE parse_date(d2)
    IN  IF p1.t = "None" THEN MonthsRaise
        ELSE IF p2.t = "None" THEN MonthsRaise
        ELSE [ok |-> TRUE, n |-> Abs((p2.y - p1.y) * 12 + (p2.m - p1.m))]

(***************************************************************************)
(* Rules and verdicts.  A rule is a record [id, validator, trigger,        *)
(* params, alert_message]; trigger is [present |-> FALSE] when the rule    *)
(* has no 'trigger' key, else [present |-> TRUE, items |-> the mapping's   *)
(* (key, expected list) pairs in insertion order].  params maps a          *)
(* parameter name to a number; a missing key is a missing parameter.       *)
(* alert_message "" is a rule without the key.  The details of a verdict   *)
(* map a name to a Python value.                                           *)
(***************************************************************************)
Verdict(rule, status, message, details) ==
    [rule_id |-> rule.id, status |-> status, message |-> message, details |-> details]

\* message or rule.get("alert_message", "")
OrElse(message, fallback) == IF message # "" THEN message ELSE fallback

pass_result(rule, details) == Verdict(rule, "PASS", "", details)

alert_result(rule, message, details) ==
    Verdict(rule, "ALERT", OrElse(message, rule.alert_message), details)

not_applicable_result(rule) == Verdict(rule, "NOT_APPLICABLE", "", EmptyMap)

\* rule.get('params', {}).get(name, default)
Param(rule, name, default) ==
    IF name \in DOMAIN rule.params THEN rule.params[name] ELSE default

(***************************************************************************)
(* Trigger engine                                                          *)
(***************************************************************************)
EmptyStr == <<>>

norm(v) == IF v.t # "None" THEN Lower(Strip(Str(v))) ELSE EmptyStr

\* the sentinel of a greater-than entry
GT == <<"G", "T">>

\* v <= 1 -> v * 100, on hundredths
Scale(h) == IF h <= 100 THEN h * 100 ELSE h

\* v = float(actual); if v <= 1: v *= 100 -- the percent value, NoFloat where
\* float raises
gt_pct(actual) ==
    LET v == ToFloat(actual)
    IN  IF v.ok THEN OkFloat(Scale(v.h)) ELSE NoFloat

match_value(actual, expected) ==
    IF expected.t = "str" /\ StartsWith(expected.s, GT)
    THEN LET v == gt_pct(actual)
             n == StrToFloat(SubSeq(expected.s, 3, Len(expected.s)))
         IN  IF v.ok /\ n.ok THEN v.h > n.h ELSE FALSE
    ELSE norm(actual) = norm(expected)

\* any(self._match_value(actual, exp) for exp in expected_list)
AnyValue(actual, expected_list) ==
    \E i \in 1..Len(expected_list) : match_value(actual, expected_list[i])

\* _match_trigger with the loop's result for no clause at all turned to False
RECURSIVE match_trigger_any(_, _, _)
match_trigger_any(fields, items, ctx) ==
    IF Len(items) = 0 THEN FALSE
    ELSE LET key == items[1].key
             expected_list == items[1].exp
         IN  IF key = "or"
             THEN \E i \in 1..Len(expected_list) :
                      match_trigger_any(fields, expected_list[i], ctx)
             ELSE IF ~AnyValue(resolve(fields, ctx, "los", key), expected_list)
             THEN FALSE
             ELSE Len(items) = 1 \/ match_trigger_any(fields, Tail(items), ctx)

\* the for loop of _match_trigger over the (key, expected_list) pairs
RECURSIVE match_trigger(_, _, _)
match_trigger(fields, items, ctx) ==
    IF Len(items) = 0 THEN TRUE
    ELSE LET key == items[1].key
             expected_list == items[1].exp
         IN  IF key = "or"
             THEN \E i \in 1..Len(expected_list) :
                      match_trigger(fields, expected_list[i], ctx)
             ELSE IF ~AnyValue(resolve(fields, ctx, "los", key), expected_list)
             THEN FALSE
             ELSE match_trigger(fields, Tail(items), ctx)

\* rule.get("trigger", {})
TriggerOf(rule) == IF rule.trigger.present THEN rule.trigger.items ELSE <<>>

(***************************************************************************)
(* Validators.  evaluate returns a verdict, or Raised(kind) where the      *)
(* Python code lets an exception escape.  clock is datetime.now().         *)
(***************************************************************************)
Raised(kind) == [exc |-> kind]
IsRaised(r) == "exc" \in DOMAIN r

\* d.get(k) on a mapping value
Get(d, k) == IF k \in DOMAIN d.d THEN d.d[k] ELSE PyNone

\* a or b
PyOr(a, b) == IF Truthy(a) THEN a ELSE b

TitleValidator(rule, ctx, fields, clock) ==
    LET chain_date == resolve(fields, ctx, "title", "chain_title_date")
        est_close == resolve(fields, ctx, "los", "estimated_closing_date")
        details == [chain_title_date |-> chain_date, estimated_closing_date |-> est_close]
    IN  IF ~Truthy(chain_date) \/ ~Truthy(est_close) THEN not_applicable_result(rule)
        ELSE LET months == months_between(parse_date(chain_date), parse_date(est_close), clock)
             IN  IF ~months.ok THEN not_applicable_result(rule)
                 ELSE IF months.n < Param(rule, "min_months", 6)
                 THEN alert_result(rule, "", details)
                 ELSE pass_result(rule, details)

AppraisalPriorSaleValidator(rule, ctx, fields, clock) ==
    LET prior_sale == resolve(fields, ctx, "appraisal", "prior_sale_date")
        est_close == resolve(fields, ctx, "los", "estimated_closing_date")
        details == [prior_sale_date |-> prior_sale, estimated_closing_date |-> est_close]
    IN  IF ~Truthy(prior_sale) \/ ~Truthy(est_close) THEN not_applicable_result(rule)
        ELSE LET months == months_between(parse_date(prior_sale), parse_date(est_close), clock)
             IN  IF ~months.ok THEN not_applicable_result(rule)
                 ELSE IF months.n < Param(rule, "min_months", 6)
                 THEN alert_result(rule, "", details)
                 ELSE pass_result(rule, details)

\* fuzzy_ratio(a, b): 0 for a None, else the library's score (rapidfuzz's
\* token_set_ratio, or difflib's ratio where rapidfuzz is not installed) of the two
\* strings.  The library is the table lib, from pairs of strings to scores.
fuzzy_ratio(a, b, lib) ==
    IF a.t = "None" \/ b.t = "None" THEN 0 ELSE lib[<<Str(a), Str(b)>>]

NotReportedMessage ==
    "The mortgage being paid off is not reported on credit report  please review reasoning requirement."
SeasoningMessage ==
    "The seasoning requirement for cash out refinance is not met, review and proceed"

\* str(x)[-4:] if x else ""
Last4(x) == IF Truthy(x) THEN LastN(Str(x), 4) ELSE EmptyStr

\* the tradelines loop breaking at the first last-4 match whatever its score
RECURSIVE ScanFirstLast4(_, _, _, _, _, _)
ScanFirstLast4(tradelines, i, last4, liabilities_name, details, lib) ==
    IF i > Len(tradelines) THEN [matched |-> PyNone, details |-> details]
    ELSE LET t == tradelines[i]
         IN  IF t.t # "dict" THEN Raised("AttributeError")
             ELSE
             LET acc_no == PyOr(Get(t, "Creditor Account Number"),
                                PyOr(Get(t, "Creditor_Account_Number"), PyStr(EmptyStr)))
                 acc_last4 == Last4(acc_no)
                 creditor_name == PyOr(Get(t, "Creditor Name"),
                                       PyOr(Get(t, "Creditor_Name"), PyStr(EmptyStr)))
                 score == fuzzy_ratio(creditor_name, liabilities_name, lib)
             IN  IF Len(last4) > 0 /\ Len(acc_last4) > 0 /\ last4 = acc_last4
                 THEN [matched |-> IF score >= 70 THEN t ELSE PyNone, details |-> details]
                 ELSE ScanFirstLast4(tradelines, i + 1, last4, liabilities_name, details, lib)

\* the for loop over the tradelines from position i: [matched, details], matched
\* PyNone when the loop ends without a break; Raised when t.get fails
RECURSIVE ScanTradelines(_, _, _, _, _, _)
ScanTradelines(tradelines, i, last4, liabilities_name, details, lib) ==
    IF i > Len(tradelines) THEN [matched |-> PyNone, details |-> details]
    ELSE LET t == tradelines[i]
         IN  IF t.t # "dict" THEN Raised("AttributeError")
             ELSE
             LET acc_no == PyOr(Get(t, "Creditor Account Number"),
                                PyOr(Get(t, "Creditor_Account_Number"), PyStr(EmptyStr)))
                 acc_last4 == Last4(acc_no)
                 creditor_name == PyOr(Get(t, "Creditor Name"),
                                       PyOr(Get(t, "Creditor_Name"), PyStr(EmptyStr)))
                 score == fuzzy_ratio(creditor_name, liabilities_name, lib)
                 updated == [matched_account_last4 |-> PyStr(acc_last4),
                             creditor_name |-> creditor_name,
                             fuzzy_score |-> PyInt(score)] @@ details
             IN  IF Len(last4) > 0 /\ Len(acc_last4) > 0 /\ last4 = acc_last4
                 THEN IF score >= 70
                      THEN [matched |-> t, details |-> updated]
                      ELSE ScanTradelines(tradelines, i + 1, last4, liabilities_name, updated, lib)
                 ELSE ScanTradelines(tradelines, i + 1, last4, liabilities_name, details, lib)

CashoutSeasoningValidator(rule, ctx, fields, clock, lib) ==
    LET liabilities_acc == PyOr(resolve(fields, ctx, "los", "liabilities_account_number"),
                                PyStr(EmptyStr))
        liabilities_name == PyOr(resolve(fields, ctx, "los", "liabilities_name"),
                                 PyStr(EmptyStr))
        est_close == resolve(fields, ctx, "los", "estimated_closing_date")
        details == [liabilities_account_number |-> liabilities_acc,
                    liabilities_name |-> liabilities_name,
                    estimated_closing_date |-> est_close]
        credit_report == IF "credit_report" \in DOMAIN ctx THEN ctx["credit_report"]
                         ELSE PyDict(EmptyMap)
    IN  IF credit_report.t # "dict" THEN Raised("AttributeError")
        ELSE
        LET tradelines_raw == Get(credit_report, "Tradelines")
        IN  IF ~Truthy(tradelines_raw) THEN not_applicable_result(rule)
            ELSE IF tradelines_raw.t \notin {"dict", "list"} THEN Raised("TypeError")
            ELSE
            LET tradelines == IF tradelines_raw.t = "dict" THEN <<tradelines_raw>>
                              ELSE tradelines_raw.l
                scan == ScanTradelines(tradelines, 1, Last4(liabilities_acc),
                                       liabilities_name, details, lib)
            IN  IF IsRaised(scan) THEN scan
                ELSE IF ~Truthy(scan.matched)
                THEN alert_result(rule, NotReportedMessage, scan.details)
                ELSE
                LET date_opened == Get(scan.matched, "Date_Opened")
                    d_open == parse_date(date_opened)
                    d_close == parse_date(est_close)
                IN  IF ~Truthy(date_opened) \/ ~Truthy(est_close)
                    THEN not_applicable_result(rule)
                    ELSE IF ~Truthy(d_open) \/ ~Truthy(d_close)
                    THEN not_applicable_result(rule)
                    ELSE LET months == months_between(d_open, d_close, clock)
                         IN  IF months.n <= 12
                             THEN alert_result(rule, SeasoningMessage, scan.details)
                             ELSE pass_result(rule, scan.details)

\* normalize_string(s): the alphanumeric and space characters of str(s), lowered,
\* stripped; "" for None
normalize_string(s) ==
    IF s.t = "None" THEN EmptyStr
    ELSE Strip(Lower(SelectSeq(Str(s), LAMBDA ch : IsAlnum(ch) \/ IsSpace(ch))))

FraudValidator(rule, ctx, fields, clock) ==
    LET est_close == resolve(fields, ctx, "los", "estimated_closing_date")
        dr_street == resolve(fields, ctx, "drive_report", "drive_street")
        dr_city == resolve(fields, ctx, "drive_report", "drive_city")
        dr_state == resolve(fields, ctx, "drive_report", "drive_state")
        dr_unit == resolve(fields, ctx, "drive_report", "drive_unit")
        subj_street == resolve(fields, ctx, "los", "urla_lender_subject_street")
        subj_city == resolve(fields, ctx, "los", "urla_lender_subject_city")
        subj_state == resolve(fields, ctx, "los", "urla_lender_subject_state")
        subj_unit == resolve(fields, ctx, "los", "urla_lender_subject_unit")
        details == [drive_addr |-> PyDict([street |-> dr_street, city |-> dr_city,
                                           state |-> dr_state, unit |-> dr_unit]),
                    subject_addr |-> PyDict([street |-> subj_street, city |-> subj_city,
                                             state |-> subj_state, unit |-> subj_unit])]
        fraud_date == resolve(fields, ctx, "drive_report", "fraud_recorded_date")
    IN  IF \/ normalize_string(dr_street) # normalize_string(subj_street)
           \/ normalize_string(dr_city) # normalize_string(subj_city)
           \/ normalize_string(dr_state) # normalize_string(subj_state)
           \/ normalize_string(dr_unit) # normalize_string(subj_unit)
        THEN not_applicable_result(rule)
        ELSE IF ~Truthy(fraud_date) \/ ~Truthy(est_close) THEN not_applicable_result(rule)
        ELSE LET months == months_between(parse_date(fraud_date), parse_date(est_close), clock)
             IN  IF ~months.ok THEN not_applicable_result(rule)
                 ELSE IF months.n < Param(rule, "max_months", 6)
                 THEN alert_result(rule, "", details)
                 ELSE pass_result(rule, details)

\* to_pct without the scaling of fractions
to_pct_raw(x) ==
    IF x.t = "None" THEN NoFloat ELSE ToFloat(x)

\* LTVValidator's to_pct(x): the percent value in hundredths, or NoFloat for None
to_pct(x) ==
    IF x.t = "None" THEN NoFloat
    ELSE LET v == ToFloat(x)
         IN  IF v.ok THEN OkFloat(Scale(v.h)) ELSE NoFloat

\* rule.get('thresholds', {}): a mapping from a name to a number or None
Thresholds(rule) == IF "thresholds" \in DOMAIN rule THEN rule.thresholds ELSE EmptyMap

\* p is not None and thresholds.get(name) is not None and p > thresholds.get(name)
Exceeds(p, thresholds, name) ==
    /\ p.ok
    /\ name \in DOMAIN thresholds
    /\ thresholds[name].t # "None"
    /\ p.h > ToFloat(thresholds[name]).h

LTVValidator(rule, ctx, fields) ==
    LET ltv == resolve(fields, ctx, "los", "ltv")
        cltv == resolve(fields, ctx, "los", "cltv")
        hcltv == resolve(fields, ctx, "los", "hcltv")
        thresholds == Thresholds(rule)
        details == [ltv |-> ltv, cltv |-> cltv, hcltv |-> hcltv,
                    thresholds |-> PyDict(thresholds)]
        l == to_pct(ltv)
        c == to_pct(cltv)
        h == to_pct(hcltv)
    IN  IF DOMAIN thresholds # {} /\ Exceeds(l, thresholds, "ltv")
        THEN alert_result(rule, "", details)
        ELSE IF DOMAIN thresholds # {} /\ Exceeds(c, thresholds, "cltv")
        THEN alert_result(rule, "", details)
        ELSE IF DOMAIN thresholds # {} /\ Exceeds(h, thresholds, "hcltv")
        THEN alert_result(rule, "", details)
        ELSE pass_result(rule, details)

\* message or rule.get("condition_message", "")
condition_result(rule, message, details) ==
    Verdict(rule, "CONDITION",
            OrElse(message, IF "condition_message" \in DOMAIN rule
                            THEN rule.condition_message ELSE ""),
            details)

sYes == <<"y","e","s">>
sY == <<"y">>
sTrue == <<"t","r","u","e">>
sMortgage == <<"m","o","r","t","g","a","g","e">>

\* cert and str(cert).strip().lower() in ['yes', 'y', 'true']
HasCertificate(cert) ==
    Truthy(cert) /\ Lower(Strip(Str(cert))) \in {sYes, sY, sTrue}

HomebuyerProgramValidator(rule, ctx, fields) ==
    LET cert == resolve(fields, ctx, "los", "homebuyer_education_certificate")
        details == [homebuyer_education_certificate |-> cert]
    IN  IF HasCertificate(cert) THEN pass_result(rule, details)
        ELSE condition_result(rule, "", details)

\* lp = float(ltv); if lp <= 1: lp = lp * 100 -- NoFloat where float raises
lp_pct(ltv) ==
    LET v == ToFloat(ltv)
    IN  IF v.ok THEN OkFloat(Scale(v.h)) ELSE NoFloat

HomebuyerLTVValidator(rule, ctx, fields) ==
    LET ltv == resolve(fields, ctx, "los", "ltv")
        cert == resolve(fields, ctx, "los", "homebuyer_education_certificate")
        details == [ltv |-> ltv, homebuyer_education_certificate |-> cert]
        lp == lp_pct(ltv)
    IN  IF ~lp.ok THEN not_applicable_result(rule)
        ELSE IF lp.h > 100 * Param(rule, "max_ltv", 95)
        THEN IF HasCertificate(cert) THEN pass_result(rule, details)
             ELSE condition_result(rule, "", details)
        ELSE pass_result(rule, details)

\* sub in s, for a non-empty sub
Contains(s, sub) ==
    \E i \in 1..(Len(s) - Len(sub) + 1) : SubSeq(s, i, i + Len(sub) - 1) = sub

\* len([x for x in liab_names.split(',') if x.strip()])
NameCount(liab_names) ==
    Len(SelectSeq(Split(liab_names, ","), LAMBDA x : Len(Strip(x)) > 0))

LienPayoffValidator(rule, ctx, fields) ==
    LET paid_off == resolve(fields, ctx, "los", "liabilities_will_be_paid_off")
        acc_type == resolve(fields, ctx, "los", "liabilities_account_type")
        liab_names == PyOr(resolve(fields, ctx, "los", "liabilities_name"), PyStr(EmptyStr))
        details == [paid_off |-> paid_off, account_type |-> acc_type,
                    liabilities_name |-> liab_names]
        count == IF liab_names.t = "str" /\ Len(Strip(liab_names.s)) > 0
                 THEN NameCount(liab_names.s) ELSE 0
    IN  IF Lower(Strip(Str(paid_off))) \in {sYes, sTrue}
        THEN IF count > 1 THEN alert_result(rule, "", details)
             ELSE IF ~Truthy(acc_type) \/ ~Contains(Lower(Str(acc_type)), sMortgage)
             THEN alert_result(rule, "", details)
             ELSE pass_result(rule, details)
        ELSE pass_result(rule, details)

\* self.validators: the registered names
Registered ==
    {"TitleValidator", "AppraisalPriorSaleValidator", "CashoutSeasoningValidator",
     "FraudValidator", "LTVValidator", "HomebuyerProgramValidator",
     "HomebuyerLTVValidator", "LienPayoffValidator"}

\* validator.evaluate(rule, context, self.resolver) for the validator bound to the rule
ValidatorEvaluate(rule, ctx, fields, clock, lib) ==
    CASE rule.validator = "TitleValidator" -> TitleValidator(rule, ctx, fields, clock)
      [] rule.validator = "AppraisalPriorSaleValidator" ->
             AppraisalPriorSaleValidator(rule, ctx, fields, clock)
      [] rule.validator = "CashoutSeasoningValidator" ->
             CashoutSeasoningValidator(rule, ctx, fields, clock, lib)
      [] rule.validator = "FraudValidator" -> FraudValidator(rule, ctx, fields, clock)
      [] rule.validator = "LTVValidator" -> LTVValidator(rule, ctx, fields)
      [] rule.validator = "HomebuyerProgramValidator" ->
             HomebuyerProgramValidator(rule, ctx, fields)
      [] rule.validator = "HomebuyerLTVValidator" -> HomebuyerLTVValidator(rule, ctx, fields)
      [] rule.validator = "LienPayoffValidator" -> LienPayoffValidator(rule, ctx, fields)

(***************************************************************************)
(* LPPValidator.  validation_results is the mapping evaluate returned,     *)
(* given by its values in insertion order.  format_results returns the     *)
(* result object, or Raised where float() fails on a price or an amount.   *)
(***************************************************************************)
\* the messages of the verdicts with the given status, in order
Messages(verdicts, status) ==
    [i \in 1..Len(SelectSeq(verdicts, LAMBDA v : v.status = status)) |->
        [message |-> SelectSeq(verdicts, LAMBDA v : v.status = status)[i].message]]

\* format_results with CONDITION verdicts left out of the lists and the counts
format_results_alerts_only(fields, los_data, verdicts) ==
    [alerts |-> Messages(verdicts, "ALERT"), los_updates |-> <<>>, conditions |-> <<>>,
     loan_details |->
         [action_summary |-> [total_checks |-> Len(Messages(verdicts, "ALERT")),
                              alerts_count |-> Len(Messages(verdicts, "ALERT")),
                              updates_count |-> 0, conditions_count |-> 0]]]

format_results(fields, los_data, verdicts) ==
    LET ctx == [los |-> los_data]
        purchase_price == ToFloat(PyOr(resolve(fields, ctx, "los", "purchase_price"), PyInt(0)))
        loan_amount == ToFloat(PyOr(resolve(fields, ctx, "los", "loan_amount"), PyInt(0)))
        alerts == Messages(verdicts, "ALERT")
        conditions == Messages(verdicts, "CONDITION")
        alerts_count == Len(alerts)
        updates_count == 0
        conditions_count == Len(conditions)
    IN  IF ~purchase_price.ok \/ ~loan_amount.ok THEN Raised("ValueError")
        ELSE [loan_id |-> resolve(fields, ctx, "los", "loan_id"),
              borrower |->
                  [names |-> << resolve(fields, ctx, "los", "borrower_first_name"),
                                resolve(fields, ctx, "los", "borrower_middle_name"),
                                resolve(fields, ctx, "los", "borrower_last_name") >>],
              loan_details |->
                  [application_date |-> resolve(fields, ctx, "los", "application_date"),
                   program |-> resolve(fields, ctx, "los", "loan_program"),
                   closing_date |-> resolve(fields, ctx, "los", "closing_date"),
                   purchase_price |-> PyFloat(purchase_price.h),
                   loan_amount |-> PyFloat(loan_amount.h),
                   le_due_date |-> resolve(fields, ctx, "los", "le_due_date"),
                   action_summary |->
                       [total_checks |-> alerts_count + updates_count + conditions_count,
                        alerts_count |-> alerts_count,
                        updates_count |-> updates_count,
                        conditions_count |-> conditions_count]],
              alerts |-> alerts,
              los_updates |-> <<>>,
              conditions |-> conditions]

\* validate_loan's context holding a credit report with a tradeline
LoanContextWithReport(los) ==
    [los |-> los,
     credit_report |-> PyDict([Tradelines |-> PyDict(
         ("Creditor Account Number" :> PyStr(<<"0","0","0","0">>))
         @@ ("Creditor Name" :> PyStr(<<"A","B","C"," ","B","a","n","k">>)))]),
     title |-> PyDict(EmptyMap),
     appraisal |-> PyDict(EmptyMap),
     drive_report |-> PyDict(EmptyMap)]

\* the context validate_loan builds around the LOS record
LoanContext(los) ==
    [los |-> los,
     credit_report |-> PyDict(EmptyMap),
     title |-> PyDict(EmptyMap),
     appraisal |-> PyDict(EmptyMap),
     drive_report |-> PyDict(EmptyMap)]

(***************************************************************************)
(* State.  fields, rules: the configuration loaded at construction.        *)
(* context: the evaluation context the caller supplies.  clock: the wall   *)
(* clock.  fuzz: the fuzzy-matching library in the build, given by the     *)
(* score it gives the two spellings of the bank's name.  pc, idx,          *)
(* results: RuleDispatcher.evaluate's position, loop index and results     *)
(* mapping.  trace: what the loop did for each rule so far (history).      *)
(* run, first: the number of the current evaluate call and the mapping the *)
(* first call returned.  loan: the LOS record validate_loan loaded, NoLoan  *)
(* when evaluate is called directly.  final: the object validate_loan      *)
(* saved and returned.  probe, answer: a direct call of one function and   *)
(* its return value.                                                       *)
(***************************************************************************)
VARIABLES fields, rules, context, clock, fuzz, pc, idx, results, trace, run, first,
          loan, final, probe, answer

vars == <<fields, rules, context, clock, fuzz, pc, idx, results, trace, run, first,
          loan, final, probe, answer>>

env == <<fields, rules, context, fuzz, loan, final>>

(***************************************************************************)
(* Strings of the model                                                    *)
(***************************************************************************)
sPurchase == <<"P","u","r","c","h","a","s","e">>
sPurchaseLoose == <<" ","p","u","r","c","h","a","s","e"," ">>
sRefinance == <<"R","e","f","i">>
sGT90 == <<"G","T","9","0">>
sTBD == <<"T","B","D">>
sClose == <<"2","0","2","5","-","1","2","-","3","1">>
sChainNear == <<"2","0","2","5","-","0","9","-","1","5">>
sChainFar == <<"0","6","-","0","1","-","2","0","2","4">>
sPriorSale == <<"2","0","2","5","/","0","8","/","0","1">>
sAcct == <<"1","2","3","4","5","6","7","8","9","0">>
sAcctMasked == <<"X","X","7","8","9","0">>
sOpened == <<"2","0","2","4","-","1","1","-","3","0">>
sBankA == <<"A","B","C"," ","B","a","n","k">>
sBankB == <<"A","B","C"," ","B","A","N","K">>
sPrimary == <<"P","r","i","m","a","r","y">>
sOther == <<"X","Y","Z">>

(***************************************************************************)
(* Configuration and contexts of the dispatcher runs                       *)
(***************************************************************************)
Field(path, default) == [path |-> path, default |-> default]

FieldsConfig ==
    [los |-> [purpose |-> Field(<<"p","u","r","p","o","s","e">>, PyNone),
              ltv |-> Field(<<"l","o","a","n",".","l","t","v">>, PyNone),
              occupancy |-> Field(<<"o","c","c">>, PyStr(sPrimary)),
              estimated_closing_date |-> Field(<<"d","a","t","e","s",".","c","l","o","s","e">>, PyNone),
              liabilities_account_number |-> Field(<<"l","i","a","b",".","a","c","c","t">>, PyNone),
              liabilities_name |-> Field(<<"l","i","a","b",".","n","a","m","e">>, PyNone)],
     title |-> [chain_title_date |-> Field(<<"c","h","a","i","n",".","d","a","t","e">>, PyNone)],
     appraisal |-> [prior_sale_date |-> Field(<<"p","r","i","o","r">>, PyNone)]]

\* a mapping with the entries of m whose value is given (Missing leaves the key out)
Missing == [t |-> "missing"]
Present(m) == [k \in {x \in DOMAIN m : m[x] # Missing} |-> m[k]]

Los(purpose, ltv, closing) ==
    PyDict(Present([purpose |-> purpose,
                    loan |-> PyDict(Present([ltv |-> ltv])),
                    dates |-> PyDict(Present([close |-> closing])),
                    liab |-> PyDict([acct |-> PyStr(sAcct), name |-> PyStr(sBankA)])]))

Tradeline(acct, name, opened) ==
    PyDict(Present(("Creditor Account Number" :> acct) @@ ("Creditor Name" :> name)
                   @@ ("Date_Opened" :> opened)))

Context(los, chain, credit_report) ==
    Present([los |-> los,
             title |-> PyDict([chain |-> PyDict(Present([date |-> chain]))]),
             appraisal |-> PyDict([prior |-> PyStr(sPriorSale)]),
             credit_report |-> credit_report,
             drive_report |-> PyDict(EmptyMap)])

Contexts ==
    { Context(Los(p, l, c), ch, cr) :
        p \in {PyStr(sPurchaseLoose), PyStr(sRefinance)},
        l \in {PyFloat(95), PyInt(85)},
        c \in {PyStr(sClose), PyStr(sTBD), Missing},
        ch \in {PyStr(sChainNear), PyStr(sChainFar)},
        cr \in {Missing, PyNone,
                PyDict([Tradelines |-> Tradeline(PyStr(sAcctMasked), PyStr(sBankB), PyStr(sOpened))])} }

NoTrigger == [present |-> FALSE]
Trigger(items) == [present |-> TRUE, items |-> items]
Clause(key, exp) == [key |-> key, exp |-> exp]

Rule(id, validator, trigger, params, alert_message) ==
    [id |-> id, validator |-> validator, trigger |-> trigger, params |-> params,
     alert_message |-> alert_message]

NoParams == [k \in {} |-> 0]

RulePool ==
    << Rule("TITLE", "TitleValidator", NoTrigger, NoParams, "chain of title"),
       Rule("APPRAISAL", "AppraisalPriorSaleValidator",
            Trigger(<<Clause("purpose", <<PyStr(sPurchase)>>),
                      Clause("or", << <<Clause("ltv", <<PyStr(sGT90)>>)>>,
                                      <<Clause("occupancy", <<PyStr(sPrimary)>>),
                                        Clause("ltv", <<PyInt(85)>>)>> >>)>>),
            [min_months |-> 3], ""),
       Rule("CASHOUT", "CashoutSeasoningValidator", Trigger(<<>>), NoParams, ""),
       Rule("SEASONING", "CashoutSeasoningValidator",
            Trigger(<<Clause("purpose", <<PyStr(sRefinance)>>)>>), NoParams, ""),
       Rule("ESCROW", "EscrowValidator", NoTrigger, NoParams, "") >>

\* the longest rule list of a dispatcher run
MaxRules == 2

Distinct(q) == \A i, j \in 1..Len(q) : i # j => q[i] # q[j]

\* the rule lists: up to MaxRules rules of the pool, in any order, ids unique
RuleLists ==
    UNION { { [i \in 1..n |-> RulePool[q[i]]] :
                q \in {x \in [1..n -> 1..Len(RulePool)] : Distinct(x)} } :
            n \in 1..MaxRules }

\* the wall clock's readings, in order
Clocks == <<PyDate(2025, 12, 1), PyDate(2026, 6, 1)>>

\* the creditor and liability names of the model
Names == {sBankA, sBankB, sOther, EmptyStr}

\* a fuzzy-matching library: equal strings score 100, a blank or unrelated string
\* 0, and the two spellings of the bank's name near (the libraries differ there)
Library(near) ==
    [p \in Names \X Names |->
        IF p[1] = EmptyStr \/ p[2] = EmptyStr \/ p[1] = sOther \/ p[2] = sOther THEN 0
        ELSE IF p[1] = p[2] THEN 100 ELSE near]

\* the scores the libraries of the model give the two spellings
NearScores == {69, 70}

\* the LOS records the store returns to validate_loan: a record, none, an empty one
LosRecords ==
    { Los(p, PyFloat(95), c) : p \in {PyStr(sPurchaseLoose), PyStr(sRefinance)},
                               c \in {PyStr(sClose), PyStr(sTBD)} }
      \cup {PyNone, PyDict(EmptyMap)}

NoLoan == [t |-> "no loan"]
NoFinal == [t |-> "no result"]
NoProbe == [fn |-> "none"]
NoAnswer == [done |-> FALSE]

(***************************************************************************)
(* RuleDispatcher.evaluate, one action per outcome of a loop iteration     *)
(***************************************************************************)
Init ==
    /\ fields = FieldsConfig
    /\ rules \in RuleLists
    /\ context \in Contexts
    /\ clock = 1
    /\ fuzz \in NearScores
    /\ pc = "idle"
    /\ idx = 0
    /\ results = EmptyMap
    /\ trace = <<>>
    /\ run = 0
    /\ first = EmptyMap
    /\ loan = NoLoan
    /\ final = NoFinal
    /\ probe = NoProbe
    /\ answer = NoAnswer

\* a validator call that also stores its verdict's details in the context
InvokeValidatorWritesContext ==
    /\ pc = "loop" /\ idx <= Len(rules)
    /\ rules[idx].validator \in Registered
    /\ match_trigger(fields, TriggerOf(rules[idx]), context)
    /\ LET r == ValidatorEvaluate(rules[idx], context, fields, Clocks[clock], Library(fuzz))
       IN  /\ ~IsRaised(r)
           /\ results' = (rules[idx].id :> r) @@ results
           /\ context' = [details |-> PyDict(r.details)] @@ context
    /\ idx' = idx + 1
    /\ trace' = Append(trace, [rule |-> rules[idx].id, ev |-> "evaluate"])
    /\ UNCHANGED <<fields, rules, fuzz, loan, final, clock, pc, run, first, probe, answer>>

\* validate_loan up to the call of evaluate: the LOS record is loaded and the
\* context built around it
LoadLoan ==
    /\ pc = "idle" /\ run = 0 /\ loan = NoLoan
    /\ \E los \in LosRecords :
          /\ Truthy(los)
          /\ loan' = los
          /\ context' = LoanContext(los)
    /\ UNCHANGED <<fields, rules, fuzz, final, clock, pc, idx, results, trace, run, first,
                   probe, answer>>

\* validate_loan for a loan the store does not hold: raise Exception("LOS not found")
LoanNotFound ==
    /\ pc = "idle" /\ run = 0 /\ loan = NoLoan
    /\ \E los \in LosRecords : ~Truthy(los)
    /\ pc' = "no_los"
    /\ UNCHANGED <<env, clock, idx, results, trace, run, first, probe, answer>>

\* validation_results.values(): the verdicts in insertion order
Values(res, rs) ==
    LET stored == SelectSeq(rs, LAMBDA r : r.id \in DOMAIN res)
    IN  [i \in 1..Len(stored) |-> res[stored[i].id]]

\* validate_loan after evaluate: the result object is built, saved and returned
FormatAndSave ==
    /\ pc = "done" /\ loan # NoLoan /\ final = NoFinal
    /\ final' = format_results(fields, loan, Values(results, rules))
    /\ pc' = "returned"
    /\ UNCHANGED <<fields, rules, context, fuzz, loan, clock, idx, results, trace, run,
                   first, probe, answer>>

\* results = {} on entry
Enter ==
    /\ pc \in {"idle", "done"}
    /\ run < 2
    /\ pc' = "loop"
    /\ idx' = 1
    /\ results' = EmptyMap
    /\ trace' = <<>>
    /\ run' = run + 1
    /\ first' = IF pc = "done" THEN results ELSE first
    /\ UNCHANGED <<env, clock, probe, answer>>

InLoop == pc = "loop" /\ idx <= Len(rules)

Event(ev) == [rule |-> rules[idx].id, ev |-> ev]

\* results[rule["id"]] = verdict
Store(verdict) == (rules[idx].id :> verdict) @@ results

\* an unregistered validator ending the loop (break in place of continue)
SkipRuleBreaks ==
    /\ InLoop
    /\ rules[idx].validator \notin Registered
    /\ idx' = Len(rules) + 1
    /\ trace' = Append(trace, Event("skip"))
    /\ UNCHANGED <<env, clock, pc, results, run, first, probe, answer>>

\* if not validator: continue
SkipRule ==
    /\ InLoop
    /\ rules[idx].validator \notin Registered
    /\ idx' = idx + 1
    /\ trace' = Append(trace, Event("skip"))
    /\ UNCHANGED <<env, clock, pc, results, run, first, probe, answer>>

\* a trigger that does not match still running the validator
EmitNotApplicableEvaluates ==
    /\ InLoop
    /\ rules[idx].validator \in Registered
    /\ ~match_trigger(fields, TriggerOf(rules[idx]), context)
    /\ LET r == ValidatorEvaluate(rules[idx], context, fields, Clocks[clock], Library(fuzz))
       IN  results' = Store(IF IsRaised(r) THEN not_applicable_result(rules[idx]) ELSE r)
    /\ idx' = idx + 1
    /\ trace' = Append(trace, Event("not_applicable"))
    /\ UNCHANGED <<env, clock, pc, run, first, probe, answer>>

\* the trigger does not match: the validator's not_applicable_result, continue
EmitNotApplicable ==
    /\ InLoop
    /\ rules[idx].validator \in Registered
    /\ ~match_trigger(fields, TriggerOf(rules[idx]), context)
    /\ results' = Store(not_applicable_result(rules[idx]))
    /\ idx' = idx + 1
    /\ trace' = Append(trace, Event("not_applicable"))
    /\ UNCHANGED <<env, clock, pc, run, first, probe, answer>>

\* the trigger matches and validator.evaluate returns
InvokeValidator ==
    /\ InLoop
    /\ rules[idx].validator \in Registered
    /\ match_trigger(fields, TriggerOf(rules[idx]), context)
    /\ LET r == ValidatorEvaluate(rules[idx], context, fields, Clocks[clock], Library(fuzz))
       IN  /\ ~IsRaised(r)
           /\ results' = Store(r)
    /\ idx' = idx + 1
    /\ trace' = Append(trace, Event("evaluate"))
    /\ UNCHANGED <<env, clock, pc, run, first, probe, answer>>

\* the trigger matches and validator.evaluate raises: evaluate does not return
ValidatorRaises ==
    /\ InLoop
    /\ rules[idx].validator \in Registered
    /\ match_trigger(fields, TriggerOf(rules[idx]), context)
    /\ IsRaised(ValidatorEvaluate(rules[idx], context, fields, Clocks[clock], Library(fuzz)))
    /\ pc' = "raised"
    /\ trace' = Append(trace, Event("raise"))
    /\ UNCHANGED <<env, clock, idx, results, run, first, probe, answer>>

\* return results
Return ==
    /\ pc = "loop"
    /\ idx > Len(rules)
    /\ pc' = "done"
    /\ UNCHANGED <<env, clock, idx, results, trace, run, first, probe, answer>>

\* time passes between two calls of evaluate
Tick ==
    /\ pc = "done"
    /\ clock < Len(Clocks)
    /\ clock' = clock + 1
    /\ UNCHANGED <<env, pc, idx, results, trace, run, first, probe, answer>>

Next ==
    \/ LoadLoan
    \/ LoanNotFound
    \/ FormatAndSave
    \/ Enter
    \/ SkipRule
    \/ EmitNotApplicable
    \/ InvokeValidator
    \/ ValidatorRaises
    \/ Return
    \/ Tick

Spec == Init /\ [][Next]_vars

(***************************************************************************)
(* Direct calls of one function: probe is the call and its arguments,      *)
(* answer its return value.                                                *)
(***************************************************************************)
sGTX == <<"G","T","X">>
sGTXLoose == <<" ","g","t","x">>
sGTHalf == <<"G","T","0",".","5">>
s85 == <<"8","5">>
sPoint95 == <<"0",".","9","5">>

Actuals ==
    { PyNone, PyFloat(95), PyFloat(50), PyInt(85), PyInt(90), PyInt(91), PyInt(1),
      PyInt(-5), PyBool(TRUE), PyStr(sPoint95), PyStr(s85), PyStr(EmptyStr),
      PyStr(sPurchase), PyStr(sPurchaseLoose), PyStr(sGTX), PyStr(sGTXLoose) }

Expecteds ==
    { PyNone, PyStr(sGT90), PyStr(sGTHalf), PyStr(sGTX), PyStr(GT), PyStr(EmptyStr),
      PyStr(sPurchase), PyStr(sPurchaseLoose), PyStr(s85), PyInt(85), PyStr(sTrue) }

MatchValueProbes ==
    { [fn |-> "match_value", actual |-> a, expected |-> e] : a \in Actuals, e \in Expecteds }

\* trigger clauses over the fields of FieldsConfig and one field without configuration
cPurchase == Clause("purpose", <<PyStr(sRefinance), PyStr(sPurchase)>>)
cLtvHigh == Clause("ltv", <<PyStr(sGT90)>>)
cOccupancy == Clause("occupancy", <<PyStr(sPrimary)>>)
cBlankLtv == Clause("ltv", <<PyStr(sGT90), PyStr(EmptyStr)>>)
cNullLtv == Clause("ltv", <<PyNone>>)
cUnknown == Clause("escrow", <<PyStr(EmptyStr)>>)
cOr(subs) == Clause("or", subs)

TriggerItems ==
    { <<>>,
      <<cPurchase>>, <<cLtvHigh>>, <<cOccupancy>>, <<cBlankLtv>>, <<cNullLtv>>, <<cUnknown>>,
      <<cPurchase, cLtvHigh>>,
      <<cOr(<<>>)>>,
      <<cOr(<< <<cPurchase>>, <<cLtvHigh>> >>)>>,
      <<cOr(<< <<cPurchase, cLtvHigh>> >>)>>,
      <<cPurchase, cOr(<< <<cLtvHigh>>, <<cOccupancy>> >>)>>,
      <<cOr(<< <<cLtvHigh>>, <<cOccupancy>> >>), cPurchase>>,
      <<cPurchase, cOr(<< <<cLtvHigh>> >>), cOccupancy>>,
      <<cOr(<< <<cLtvHigh>> >>), cPurchase>>,
      <<cLtvHigh, cOr(<< <<cPurchase>>, <<cOr(<< <<cOccupancy>> >>), cLtvHigh>> >>)>> }

TriggerContexts ==
    { [los |-> PyDict(Present([purpose |-> p,
                               occ |-> o,
                               loan |-> PyDict(Present([ltv |-> l]))]))] :
        p \in {PyStr(sPurchaseLoose), PyStr(sOther), Missing},
        o \in {PyStr(sOther), Missing},
        l \in {PyFloat(95), PyInt(85), PyNone, Missing} }

MatchTriggerProbes ==
    { [fn |-> "match_trigger", items |-> t, ctx |-> c] :
        t \in TriggerItems, c \in TriggerContexts }

\* field-path configurations and contexts for resolve: paths of one, two and three
\* segments, with and without a default
sDefault == <<"d","f","l","t">>
sValue == <<"v","a","l">>

ResolveFields(default) ==
    [los |-> [one |-> Field(<<"a">>, default),
              two |-> Field(<<"a",".","b">>, default),
              three |-> Field(<<"a",".","b",".","c">>, default)],
     title |-> [one |-> Field(<<"x">>, PyNone)]]

Leaves == { PyNone, PyInt(0), PyStr(EmptyStr), PyStr(sValue), PyBool(FALSE),
            PyList(<<PyInt(1)>>), PyDict(EmptyMap) }

ResolveSections ==
    { Missing, PyNone, PyStr(sValue), PyList(<<>>) }
      \cup { PyDict(Present([a |-> x])) : x \in Leaves \cup {Missing} }
      \cup { PyDict([a |-> PyDict(Present([b |-> x]))]) : x \in Leaves \cup {Missing} }
      \cup { PyDict([a |-> PyDict([b |-> PyDict(Present([c |-> x]))])]) :
               x \in {Missing, PyNone, PyStr(sValue)} }

ResolveContexts ==
    { Present([los |-> l, title |-> t]) :
        l \in ResolveSections, t \in {Missing, PyDict([x |-> PyStr(sValue)])} }

ResolveProbes ==
    { [fn |-> "resolve", fields |-> ResolveFields(d), ctx |-> c, section |-> sec, name |-> n] :
        d \in {PyNone, PyStr(sDefault)}, c \in ResolveContexts,
        sec \in {"los", "title", "appraisal"}, n \in {"one", "two", "three", "four"} }

\* contexts, rules and clocks for TitleValidator and AppraisalPriorSaleValidator
sDayFirst == <<"1","3","-","0","2","-","2","0","2","5">>
sNoSuchDay == <<"2","0","2","5","-","0","2","-","3","0">>
sCloseSlash == <<"1","2","/","3","1","/","2","0","2","5">>

DocDates ==
    { Missing, PyStr(EmptyStr), PyStr(sTBD), PyStr(sNoSuchDay), PyStr(sChainNear),
      PyStr(sChainFar), PyStr(sDayFirst), PyStr(sPriorSale), PyDate(2025, 7, 4) }

CloseDates ==
    { Missing, PyStr(EmptyStr), PyStr(sTBD), PyStr(sClose), PyStr(sCloseSlash),
      PyDate(2026, 1, 15) }

DateContext(doc, closing) ==
    [los |-> PyDict([dates |-> PyDict(Present([close |-> closing]))]),
     title |-> PyDict([chain |-> PyDict(Present([date |-> doc]))]),
     appraisal |-> PyDict(Present([prior |-> doc]))]

DateProbes ==
    { [fn |-> "evaluate",
       rule |-> Rule("DATE", v, NoTrigger, ps, "too recent"),
       ctx |-> DateContext(d, c), clock |-> k,
       near |-> 70, given |-> [doc |-> d, close |-> c]] :
        v \in {"TitleValidator", "AppraisalPriorSaleValidator"},
        ps \in {NoParams, [min_months |-> 3], [min_months |-> 11]},
        d \in DocDates, c \in CloseDates, k \in 1..Len(Clocks) }

\* tradelines, contexts and libraries for CashoutSeasoningValidator
sOpened12 == <<"1","2","/","0","1","/","2","0","2","4">>
sShortAcct == <<"7","8","9","0">>
sOtherAcct == <<"5","5","5","5","1","1","1","1">>

TradelinePool ==
    << Tradeline(PyStr(sAcctMasked), PyStr(sBankB), PyStr(sOpened)),
       Tradeline(PyInt(7890), PyStr(sBankA), PyStr(sOpened12)),
       Tradeline(PyStr(sShortAcct), PyStr(sOther), PyStr(sOpened)),
       Tradeline(PyStr(sOtherAcct), PyStr(sBankA), PyStr(sOpened)),
       Tradeline(Missing, PyStr(sBankA), PyStr(sOpened)),
       Tradeline(PyStr(sAcct), PyStr(sBankA), Missing),
       PyDict(("Creditor_Account_Number" :> PyStr(sAcct)) @@ ("Creditor_Name" :> PyStr(sBankA))
              @@ ("Date_Opened" :> PyStr(sTBD))) >>

\* the longest Tradelines list of a direct call
MaxTradelines == 2

TradelineLists ==
    UNION { { [i \in 1..n |-> TradelinePool[q[i]]] : q \in [1..n -> 1..Len(TradelinePool)] } :
            n \in 0..MaxTradelines }

CreditReports ==
    { Missing, PyDict(EmptyMap) }
      \cup { PyDict([Tradelines |-> PyList(l)]) : l \in TradelineLists }
      \cup { PyDict([Tradelines |-> TradelinePool[i]]) : i \in 1..Len(TradelinePool) }

CashoutContext(acct, closing, credit_report) ==
    Present([los |-> PyDict([dates |-> PyDict(Present([close |-> closing])),
                             liab |-> PyDict(Present([acct |-> acct, name |-> PyStr(sBankA)]))]),
             credit_report |-> credit_report])

CashoutProbes ==
    { [fn |-> "evaluate",
       rule |-> Rule("CASHOUT", "CashoutSeasoningValidator", NoTrigger, NoParams, "seasoning"),
       ctx |-> CashoutContext(a, c, cr), clock |-> 1,
       near |-> n, given |-> [acct |-> a, close |-> c, credit_report |-> cr]] :
        a \in {PyStr(sAcct), Missing}, c \in {PyStr(sClose), PyStr(sTBD), Missing},
        cr \in CreditReports, n \in NearScores }

\* addresses, dates and configuration for FraudValidator
sStreet == <<"1"," ","E","l","m"," ","S","t",".">>
sStreetLoose == <<" ","1"," ","e","l","m"," ","s","t">>
sStreetOther == <<"2"," ","E","l","m"," ","S","t">>
sCity == <<"R","e","n","o">>
sCityLoose == <<"r","e","n","o"," ">>
sCityOther == <<"E","l","k","o">>
sState == <<"N","V">>
sStateOther == <<"C","A">>
sUnit == <<"#","4">>
sUnitOther == <<"5">>

FraudFields ==
    [los |-> [estimated_closing_date |-> Field(<<"c","l","o","s","e">>, PyNone),
              urla_lender_subject_street |-> Field(<<"s","t","r","e","e","t">>, PyNone),
              urla_lender_subject_city |-> Field(<<"c","i","t","y">>, PyNone),
              urla_lender_subject_state |-> Field(<<"s","t","a","t","e">>, PyNone),
              urla_lender_subject_unit |-> Field(<<"u","n","i","t">>, PyNone)],
     drive_report |-> [drive_street |-> Field(<<"s","t","r","e","e","t">>, PyNone),
                       drive_city |-> Field(<<"c","i","t","y">>, PyNone),
                       drive_state |-> Field(<<"s","t","a","t","e">>, PyNone),
                       drive_unit |-> Field(<<"u","n","i","t">>, PyNone),
                       fraud_recorded_date |-> Field(<<"f","r","a","u","d">>, PyNone)]]

\* an address as <<street, city, state, unit>>
Address(a) == [street |-> a[1], city |-> a[2], state |-> a[3], unit |-> a[4]]

\* pairs <<drive report address, subject address>>: each component equal after
\* normalization, or different
AddressPairs ==
    { << <<st[1], ci[1], sa[1], un[1]>>, <<st[2], ci[2], sa[2], un[2]>> >> :
        st \in { <<PyStr(sStreet), PyStr(sStreetLoose)>>, <<PyStr(sStreet), PyStr(sStreetOther)>> },
        ci \in { <<PyStr(sCity), PyStr(sCityLoose)>>, <<PyStr(sCity), PyStr(sCityOther)>> },
        sa \in { <<PyStr(sState), PyStr(sState)>>, <<PyStr(sState), PyStr(sStateOther)>> },
        un \in { <<Missing, PyStr(EmptyStr)>>, <<PyInt(4), PyStr(sUnit)>>,
                 <<PyInt(4), PyStr(sUnitOther)>> } }

FraudContext(drive, subject, fraud, closing) ==
    [los |-> PyDict(Present(Address(subject) @@ [close |-> closing])),
     drive_report |-> PyDict(Present(Address(drive) @@ [fraud |-> fraud]))]

FraudProbes ==
    { [fn |-> "evaluate",
       rule |-> Rule("FRAUD", "FraudValidator", NoTrigger, ps, "fraud alert on record"),
       ctx |-> FraudContext(ad[1], ad[2], f, c), clock |-> k, near |-> 70] :
        ps \in {NoParams, [max_months |-> 3]},
        ad \in AddressPairs,
        f \in {PyStr(sChainNear), PyStr(sChainFar), PyStr(sTBD), Missing},
        c \in {PyStr(sClose), PyStr(sTBD), Missing},
        k \in 1..Len(Clocks) }

\* loan values, rules and configuration for the validators of the loan figures
sNA == <<"n","/","a">>
s96Half == <<" ","9","6",".","5">>

LoanFields ==
    [los |-> [ltv |-> Field(<<"l","t","v">>, PyNone),
              cltv |-> Field(<<"c","l","t","v">>, PyNone),
              hcltv |-> Field(<<"h","c","l","t","v">>, PyNone),
              homebuyer_education_certificate |-> Field(<<"c","e","r","t">>, PyNone),
              liabilities_will_be_paid_off |-> Field(<<"p","a","i","d">>, PyNone),
              liabilities_account_type |-> Field(<<"t","y","p","e">>, PyNone),
              liabilities_name |-> Field(<<"n","a","m","e","s">>, PyNone)]]

\* a rule with a 'thresholds' mapping
ThresholdRule(id, validator, thresholds) ==
    [id |-> id, validator |-> validator, trigger |-> NoTrigger, params |-> NoParams,
     alert_message |-> "ratio above limit", thresholds |-> thresholds]

ThresholdMaps ==
    { EmptyMap,
      [ltv |-> PyInt(95)],
      [hcltv |-> PyInt(90)],
      [ltv |-> PyNone, cltv |-> PyInt(95)],
      [ltv |-> PyInt(95), cltv |-> PyInt(95), hcltv |-> PyInt(95)] }

LTVRules ==
    { Rule("LTV", "LTVValidator", NoTrigger, NoParams, "ratio above limit") }
      \cup { ThresholdRule("LTV", "LTVValidator", th) : th \in ThresholdMaps }

LTVContext(ltv, cltv, hcltv) ==
    [los |-> PyDict(Present([ltv |-> ltv, cltv |-> cltv, hcltv |-> hcltv]))]

LTVProbes ==
    { [fn |-> "evaluate", rule |-> r, ctx |-> LTVContext(l, c, h), clock |-> 1, near |-> 70] :
        r \in LTVRules,
        l \in {PyFloat(98), PyInt(80), PyInt(95), PyStr(s96Half), PyStr(sNA), PyNone,
               PyInt(-5), PyBool(TRUE), Missing},
        c \in {Missing, PyInt(85), PyInt(96)},
        h \in {Missing, PyInt(85), PyFloat(96)} }

\* the three sites of the percent coercion and the values handed to them
CoerceSites == {"to_pct", "lp", "gt"}

CoerceInputs ==
    { PyFloat(95), PyFloat(101), PyFloat(-50), PyFloat(-100), PyInt(0), PyInt(1), PyInt(95),
      PyInt(-1), PyInt(-5), PyStr(sPoint95), PyStr(s96Half), PyStr(sNA), PyStr(EmptyStr),
      PyBool(TRUE), PyNone }

CoerceProbes == { [fn |-> "coerce", site |-> st, x |-> x] : st \in CoerceSites, x \in CoerceInputs }

\* rules, certificates and liabilities for the homebuyer and lien validators
sYesLoose == <<" ","Y","e","s"," ">>
sYUpper == <<"Y">>
sTrueUpper == <<"T","R","U","E">>
sNo == <<"n","o">>
sMortgageLoan == <<"M","o","r","t","g","a","g","e"," ","L","o","a","n">>
sAuto == <<"A","u","t","o">>
sTwoNames == <<"A",","," ","B">>
sOneName == <<"A",","," ",",">>

\* a rule with a 'condition_message'
ConditionRule(id, validator, params, condition_message) ==
    [id |-> id, validator |-> validator, trigger |-> NoTrigger, params |-> params,
     alert_message |-> "", condition_message |-> condition_message]

HomebuyerContext(ltv, cert) == [los |-> PyDict(Present([ltv |-> ltv, cert |-> cert]))]

HomebuyerProbes ==
    { [fn |-> "evaluate", rule |-> r, ctx |-> HomebuyerContext(l, c), clock |-> 1, near |-> 70] :
        r \in { ConditionRule("HB", "HomebuyerProgramValidator", NoParams, "certificate needed"),
                ConditionRule("HBLTV", "HomebuyerLTVValidator", NoParams, "certificate needed"),
                ConditionRule("HBLTV", "HomebuyerLTVValidator", [max_ltv |-> 97], ""),
                Rule("HB", "HomebuyerProgramValidator", NoTrigger, NoParams, "") },
        l \in {PyFloat(98), PyInt(95), PyInt(96), PyStr(sNA), Missing},
        c \in {PyStr(sYesLoose), PyStr(sYUpper), PyStr(sTrueUpper), PyStr(sNo), PyBool(TRUE),
               PyInt(1), Missing} }

LienContext(paid, type, names) ==
    [los |-> PyDict(Present([paid |-> paid, type |-> type, names |-> names]))]

LienProbes ==
    { [fn |-> "evaluate",
       rule |-> Rule("LIEN", "LienPayoffValidator", NoTrigger, NoParams, "check the payoff"),
       ctx |-> LienContext(pd, ty, nm), clock |-> 1, near |-> 70] :
        pd \in {PyStr(sYesLoose), PyStr(sTrueUpper), PyStr(sY), PyStr(sYUpper), PyStr(sNo),
                PyBool(TRUE), PyBool(FALSE), Missing},
        ty \in {PyStr(sMortgageLoan), PyStr(sAuto), PyStr(EmptyStr), Missing},
        nm \in {PyStr(sBankA), PyStr(sTwoNames), PyStr(sOneName), Missing} }

\* verdict mappings, LOS records and configuration for format_results
FormatFields ==
    [los |-> [loan_id |-> Field(<<"i","d">>, PyNone),
              purchase_price |-> Field(<<"p","r","i","c","e">>, PyNone),
              loan_amount |-> Field(<<"a","m","o","u","n","t">>, PyNone)]]

VerdictPool ==
    << [rule_id |-> "LTV", status |-> "ALERT", message |-> "ratio above limit", details |-> EmptyMap],
       [rule_id |-> "LIEN", status |-> "ALERT", message |-> "check the payoff", details |-> EmptyMap],
       [rule_id |-> "HB", status |-> "CONDITION", message |-> "certificate needed", details |-> EmptyMap],
       [rule_id |-> "HBLTV", status |-> "CONDITION", message |-> "", details |-> EmptyMap],
       [rule_id |-> "TITLE", status |-> "PASS", message |-> "", details |-> EmptyMap],
       [rule_id |-> "FRAUD", status |-> "NOT_APPLICABLE", message |-> "", details |-> EmptyMap] >>

\* the most verdicts in a mapping handed to format_results
MaxVerdicts == 3

\* the values of the verdict mappings, in insertion order: the keys are unique
VerdictLists ==
    UNION { { [i \in 1..n |-> VerdictPool[q[i]]] :
                q \in {x \in [1..n -> 1..Len(VerdictPool)] : Distinct(x)} } :
            n \in 0..MaxVerdicts }

FormatProbes ==
    { [fn |-> "format", los |-> los, verdicts |-> vs] :
        los \in { PyDict([id |-> PyStr(<<"L","1">>), price |-> PyInt(250000),
                          amount |-> PyStr(s96Half)]),
                  PyDict([price |-> PyStr(sNA)]),
                  PyDict(EmptyMap) },
        vs \in VerdictLists }

Probes == MatchValueProbes \cup MatchTriggerProbes \cup ResolveProbes
            \cup DateProbes \cup CashoutProbes \cup FraudProbes
            \cup LTVProbes \cup CoerceProbes \cup HomebuyerProbes \cup LienProbes
            \cup FormatProbes

\* the field-path configuration loaded for a direct call
UnitFields(p) ==
    IF p.fn = "format" THEN FormatFields
    ELSE IF p.fn # "evaluate" THEN FieldsConfig
    ELSE IF p.rule.validator = "FraudValidator" THEN FraudFields
    ELSE IF p.rule.validator \in {"LTVValidator", "HomebuyerProgramValidator",
                                  "HomebuyerLTVValidator", "LienPayoffValidator"}
    THEN LoanFields
    ELSE FieldsConfig

InitUnit ==
    /\ probe \in Probes
    /\ fields = UnitFields(probe)
    /\ rules = <<>>
    /\ context = EmptyMap
    /\ clock = 1
    /\ fuzz = 70
    /\ pc = "off"
    /\ idx = 0
    /\ results = EmptyMap
    /\ trace = <<>>
    /\ run = 0
    /\ first = EmptyMap
    /\ loan = NoLoan
    /\ final = NoFinal
    /\ answer = NoAnswer

dispatcher == <<fields, rules, context, clock, fuzz, pc, idx, results, trace, run, first,
                loan, final>>

Pending(fn) == probe.fn = fn /\ ~answer.done

CallMatchValue ==
    /\ Pending("match_value")
    /\ answer' = [done |-> TRUE, b |-> match_value(probe.actual, probe.expected)]
    /\ UNCHANGED <<dispatcher, probe>>

CallMatchTrigger ==
    /\ Pending("match_trigger")
    /\ answer' = [done |-> TRUE, b |-> match_trigger(fields, probe.items, probe.ctx)]
    /\ UNCHANGED <<dispatcher, probe>>

CallResolve ==
    /\ Pending("resolve")
    /\ answer' = [done |-> TRUE,
                  v |-> resolve(probe.fields, probe.ctx, probe.section, probe.name)]
    /\ UNCHANGED <<dispatcher, probe>>

CallEvaluate ==
    /\ Pending("evaluate")
    /\ answer' = [done |-> TRUE,
                  r |-> ValidatorEvaluate(probe.rule, probe.ctx, fields,
                                          Clocks[probe.clock], Library(probe.near))]
    /\ UNCHANGED <<dispatcher, probe>>

\* the percent coercion at one of its three sites
CallCoerce ==
    /\ Pending("coerce")
    /\ answer' = [done |-> TRUE,
                  p |-> CASE probe.site = "to_pct" -> to_pct(probe.x)
                          [] probe.site = "lp" -> lp_pct(probe.x)
                          [] probe.site = "gt" -> gt_pct(probe.x)]
    /\ UNCHANGED <<dispatcher, probe>>

CallFormatResults ==
    /\ Pending("format")
    /\ answer' = [done |-> TRUE, r |-> format_results(fields, probe.los, probe.verdicts)]
    /\ UNCHANGED <<dispatcher, probe>>

NextUnit ==
    \/ CallFormatResults
    \/ CallCoerce
    \/ CallMatchValue
    \/ CallMatchTrigger
    \/ CallResolve
    \/ CallEvaluate

SpecUnit == InitUnit /\ [][NextUnit]_vars

(***************************************************************************)
(* Properties of RuleDispatcher.evaluate (under Spec)                      *)
(***************************************************************************)
\* the ids of the rules of the list whose validator name is registered
RegisteredIds ==
    { rules[i].id : i \in {j \in 1..Len(rules) : rules[j].validator \in Registered} }

\* C1: when evaluate returns, the keys of the mapping are exactly the ids of the
\* rules whose validator name is registered, whatever the place of the rules with
\* an unregistered name in the list, and the verdict under each key carries that
\* key as its rule_id.
C1_KeysAreRegisteredRules ==
    pc = "done" =>
        /\ DOMAIN results = RegisteredIds
        /\ \A k \in DOMAIN results : results[k].rule_id = k

\* evaluate has returned for a list with an unregistered rule before a registered one
C1_Witness ==
    /\ pc = "done"
    /\ \E i, j \in 1..Len(rules) :
          /\ i < j
          /\ rules[i].validator \notin Registered
          /\ rules[j].id \in DOMAIN results

\* the dispatcher's own verdict for a rule whose trigger does not match
TriggerLevelVerdict(rule) ==
    [rule_id |-> rule.id, status |-> "NOT_APPLICABLE", message |-> "", details |-> EmptyMap]

\* C2: for every rule with a registered validator that the loop has passed: when
\* its trigger does not match, the validator was not invoked and the verdict is
\* NOT_APPLICABLE with empty message and empty details; when it matches, the
\* validator was invoked and the verdict is what its evaluate returned.
C2_TriggerGatesValidator ==
    pc \in {"loop", "raised"} =>
        \A i \in 1..Len(trace) :
            rules[i].validator \in Registered =>
                IF match_trigger(fields, TriggerOf(rules[i]), context)
                THEN /\ trace[i].ev \in {"evaluate", "raise"}
                     /\ trace[i].ev = "evaluate" =>
                            results[rules[i].id] =
                                ValidatorEvaluate(rules[i], context, fields, Clocks[clock], Library(fuzz))
                ELSE /\ trace[i].ev = "not_applicable"
                     /\ results[rules[i].id] = TriggerLevelVerdict(rules[i])

\* one rule was stopped by its trigger and another one evaluated, in the same run
C2_Witness ==
    /\ pc = "loop"
    /\ \E i, j \in 1..Len(trace) :
          /\ trace[i].ev = "not_applicable"
          /\ trace[j].ev = "evaluate"
          /\ results[rules[j].id].status # "NOT_APPLICABLE"

EmptyTrigger(rule) == ~rule.trigger.present \/ rule.trigger.items = <<>>

\* C3: a rule with a registered validator whose trigger mapping is empty or absent
\* always has its validator invoked: its verdict is the one evaluate returned, never
\* the dispatcher's trigger-level NOT_APPLICABLE.
C3_EmptyTriggerAlwaysRuns ==
    \A i \in 1..Len(trace) :
        (rules[i].validator \in Registered /\ EmptyTrigger(rules[i])) =>
            /\ trace[i].ev \in {"evaluate", "raise"}
            /\ (trace[i].ev = "evaluate" /\ pc = "loop") =>
                   results[rules[i].id] =
                       ValidatorEvaluate(rules[i], context, fields, Clocks[clock], Library(fuzz))

\* a rule without a trigger and a rule with an empty trigger mapping both evaluated
C3_Witness ==
    \E i, j \in 1..Len(trace) :
        /\ ~rules[i].trigger.present /\ trace[i].ev = "evaluate"
        /\ rules[j].trigger.present /\ rules[j].trigger.items = <<>>
        /\ trace[j].ev = "evaluate"

\* C8: two runs of evaluate over the same rules, configuration and context return
\* identical verdict mappings, whatever time passes between them.
C8_SecondRunIdentical ==
    (pc = "done" /\ run = 2) => results = first

(***************************************************************************)
(* Properties of the trigger matcher (under SpecUnit)                      *)
(***************************************************************************)
Answered(fn) == probe.fn = fn /\ answer.done

\* the trigger as a conjunction over all its keys
RECURSIVE Conjunction(_, _, _)
Conjunction(f, items, ctx) ==
    \A i \in 1..Len(items) :
        IF items[i].key = "or"
        THEN \E j \in 1..Len(items[i].exp) : Conjunction(f, items[i].exp[j], ctx)
        ELSE AnyValue(resolve(f, ctx, "los", items[i].key), items[i].exp)

HasOr(items) == \E i \in 1..Len(items) : items[i].key = "or"
HasField(items) == \E i \in 1..Len(items) : items[i].key # "or"

\* C4: for a trigger with an "or" key and field keys, _match_trigger is true exactly
\* when every field key matches one entry of its list and one sub-trigger of "or"
\* matches, wherever the "or" key stands.
C4_TriggerIsConjunction ==
    (Answered("match_trigger") /\ HasOr(probe.items) /\ HasField(probe.items)) =>
        answer.b = Conjunction(fields, probe.items, probe.ctx)

\* an entry made of "GT" followed by a number
IsGreaterThan(e) ==
    /\ e.t = "str"
    /\ StartsWith(e.s, GT)
    /\ StrToFloat(SubSeq(e.s, 3, Len(e.s))).ok

\* C5: _match_value(a, e) is the greater-than comparison of the percent-coerced a
\* with n when e is "GT" followed by a number n, and the case- and
\* whitespace-insensitive string equality of a and e for every other e.
C5_MatchValueReference ==
    Answered("match_value") =>
        answer.b =
            IF IsGreaterThan(probe.expected)
            THEN /\ ToFloat(probe.actual).ok
                 /\ Scale(ToFloat(probe.actual).h) >
                        StrToFloat(SubSeq(probe.expected.s, 3, Len(probe.expected.s))).h
            ELSE norm(probe.actual) = norm(probe.expected)

\* the path leads to a key that is there
RECURSIVE PathExists(_, _)
PathExists(cur, parts) ==
    \/ Len(parts) = 0
    \/ /\ cur.t = "dict"
       /\ Join(parts[1]) \in DOMAIN cur.d
       /\ PathExists(cur.d[Join(parts[1])], Tail(parts))

\* the field has no path configuration, or the context's los section lacks it
FieldMissing(f, ctx, key) ==
    \/ NoConfig(f, "los", key)
    \/ ~PathExists(SectionOf(ctx, "los"), Split(f["los"][key].path, "."))

\* C6: a trigger clause whose field is missing from the los section, or has no path
\* configuration, is a non-match for every expected list.
C6_MissingFieldNeverMatches ==
    ( /\ Answered("match_trigger")
      /\ Len(probe.items) = 1
      /\ probe.items[1].key # "or"
      /\ FieldMissing(fields, probe.ctx, probe.items[1].key) ) =>
        answer.b = FALSE

(***************************************************************************)
(* Properties of PathResolver.resolve (under SpecUnit)                     *)
(***************************************************************************)
NotThere == [t |-> "miss"]

\* what the first k segments of the path lead to in the section, NotThere when a
\* segment meets a value that is no mapping or a key that is missing
RECURSIVE Reach(_, _, _, _)
Reach(ctx, section, parts, k) ==
    IF k = 0
    THEN IF section \in DOMAIN ctx THEN ctx[section] ELSE NotThere
    ELSE LET before == Reach(ctx, section, parts, k - 1)
         IN  IF before.t = "dict" /\ Join(parts[k]) \in DOMAIN before.d
             THEN before.d[Join(parts[k])]
             ELSE NotThere

ResolveReference(f, ctx, section, name) ==
    IF section \notin DOMAIN f \/ name \notin DOMAIN f[section] THEN PyNone
    ELSE LET parts == Split(f[section][name].path, ".")
             found == Reach(ctx, section, parts, Len(parts))
         IN  IF found = NotThere \/ found = PyNone
             THEN f[section][name].default
             ELSE found

\* C7: resolve returns null when (section, field) has no configuration; the
\* configured default when a path segment meets a non-mapping value or a missing
\* key, when the section is absent or no mapping, or when the value found is null;
\* and the value at the end of the path otherwise.
C7_ResolveReference ==
    Answered("resolve") =>
        answer.v = ResolveReference(probe.fields, probe.ctx, probe.section, probe.name)

\* resolve answered for a two-segment path that ends on a null, with a default set
C7_Witness ==
    /\ Answered("resolve")
    /\ probe.section = "los" /\ probe.name = "two"
    /\ probe.fields["los"]["two"].default = PyStr(sDefault)
    /\ "los" \in DOMAIN probe.ctx
    /\ probe.ctx["los"] = PyDict([a |-> PyDict([b |-> PyNone])])
    /\ answer.v = PyStr(sDefault)

(***************************************************************************)
(* Properties of the validators (under SpecUnit)                           *)
(***************************************************************************)
\* a date that is missing, empty or that parse_date cannot parse
Unusable(x) == x = Missing \/ ~Truthy(x) \/ parse_date(x) = PyNone

\* the calendar-month difference of two parseable dates
MonthDiff(a, b) ==
    LET d1 == parse_date(a)
        d2 == parse_date(b)
    IN  Abs((d2.y - d1.y) * 12 + (d2.m - d1.m))

MinMonths(rule) == IF "min_months" \in DOMAIN rule.params THEN rule.params.min_months ELSE 6

DateGapReference(doc, close, rule) ==
    IF Unusable(doc) \/ Unusable(close) THEN "NOT_APPLICABLE"
    ELSE IF MonthDiff(doc, close) < MinMonths(rule) THEN "ALERT"
    ELSE "PASS"

\* C9: TitleValidator and AppraisalPriorSaleValidator return NOT_APPLICABLE when
\* the document date or the estimated closing date is missing, empty or
\* unparseable, ALERT when the month difference of the two dates is below
\* min_months (default 6), and PASS otherwise.
C9_DateGapReference ==
    ( /\ Answered("evaluate")
      /\ probe.rule.validator \in {"TitleValidator", "AppraisalPriorSaleValidator"} ) =>
        /\ ~IsRaised(answer.r)
        /\ answer.r.status = DateGapReference(probe.given.doc, probe.given.close, probe.rule)

\* the Tradelines of a credit report as a list, a single mapping being a list of one
GivenTradelines(cr) ==
    IF cr = Missing THEN <<>>
    ELSE IF "Tradelines" \notin DOMAIN cr.d THEN <<>>
    ELSE IF cr.d["Tradelines"].t = "dict" THEN <<cr.d["Tradelines"]>>
    ELSE cr.d["Tradelines"].l

\* the value a tradeline holds under one of two spellings of a key
Either(t, k1, k2) ==
    IF k1 \in DOMAIN t.d /\ Truthy(t.d[k1]) THEN t.d[k1]
    ELSE IF k2 \in DOMAIN t.d /\ Truthy(t.d[k2]) THEN t.d[k2]
    ELSE Missing

\* the tradeline has an account number whose last 4 characters are those of the
\* liability account number, and its creditor name scores at least 70
Selectable(t, acct, name, lib) ==
    LET a == Either(t, "Creditor Account Number", "Creditor_Account_Number")
        n == Either(t, "Creditor Name", "Creditor_Name")
    IN  /\ a # Missing /\ acct # Missing
        /\ LastN(Str(a), 4) = LastN(Str(acct), 4)
        /\ n # Missing
        /\ lib[<<Str(n), name>>] >= 70

CashoutReference(g, lib) ==
    LET tl == GivenTradelines(g.credit_report)
        sel == {i \in 1..Len(tl) : Selectable(tl[i], g.acct, sBankA, lib)}
    IN  IF Len(tl) = 0 THEN <<"NOT_APPLICABLE", "">>
        ELSE IF sel = {} THEN <<"ALERT", NotReportedMessage>>
        ELSE LET t == tl[CHOOSE i \in sel : \A j \in sel : i <= j]
                 opened == IF "Date_Opened" \in DOMAIN t.d THEN t.d["Date_Opened"] ELSE Missing
             IN  IF Unusable(opened) \/ Unusable(g.close) THEN <<"NOT_APPLICABLE", "">>
                 ELSE IF MonthDiff(opened, g.close) <= 12 THEN <<"ALERT", SeasoningMessage>>
                 ELSE <<"PASS", "">>

\* C10: CashoutSeasoningValidator returns NOT_APPLICABLE without Tradelines; else it
\* selects the first tradeline, in list order, whose account number ends in the
\* last 4 characters of the liability account number and whose creditor name
\* scores at least 70; ALERT ("not reported") when there is none; NOT_APPLICABLE
\* when the selected tradeline's Date_Opened or the closing date is missing or
\* unparseable; else ALERT for a month difference of at most 12 and PASS for 13 or
\* more.  (Where an account number is missing there are no last 4 characters to
\* compare, and the tradeline is not a match.)
C10_CashoutReference ==
    ( /\ Answered("evaluate")
      /\ probe.rule.validator = "CashoutSeasoningValidator" ) =>
        /\ ~IsRaised(answer.r)
        /\ <<answer.r.status, answer.r.message>> = CashoutReference(probe.given, Library(probe.near))

\* the second tradeline was selected, past a last-4 match that scores below 70, and
\* its 13 months of seasoning pass
C10_Witness ==
    /\ Answered("evaluate")
    /\ probe.rule.validator = "CashoutSeasoningValidator"
    /\ probe.given.acct = PyStr(sAcct)
    /\ probe.given.credit_report =
           PyDict([Tradelines |-> PyList(<<TradelinePool[3], TradelinePool[1]>>)])
    /\ probe.near = 70
    /\ answer.r.status = "PASS"

\* the month limit of a fraud rule
MaxMonths(rule) == IF "max_months" \in DOMAIN rule.params THEN rule.params.max_months ELSE 6

\* the four normalized components of the two addresses of the context are equal
SameAddress(ctx) ==
    \A k \in {"street", "city", "state", "unit"} :
        normalize_string(Get(ctx["drive_report"], k)) = normalize_string(Get(ctx["los"], k))

FraudReference(ctx, rule) ==
    LET fraud == Get(ctx["drive_report"], "fraud")
        close == Get(ctx["los"], "close")
    IN  IF ~SameAddress(ctx) THEN "NOT_APPLICABLE"
        ELSE IF Unusable(fraud) \/ Unusable(close) THEN "NOT_APPLICABLE"
        ELSE IF MonthDiff(fraud, close) < MaxMonths(rule) THEN "ALERT"
        ELSE "PASS"

\* C11: FraudValidator returns NOT_APPLICABLE whenever one of the four normalized
\* address components of the drive report differs from the subject address's,
\* whatever the dates; it returns ALERT (month difference below max_months,
\* default 6) or PASS only when all four are equal and both dates parse.
C11_FraudReference ==
    ( /\ Answered("evaluate")
      /\ probe.rule.validator = "FraudValidator" ) =>
        /\ ~IsRaised(answer.r)
        /\ answer.r.status = FraudReference(probe.ctx, probe.rule)

\* the percent reading of a number given in hundredths: a fraction, of magnitude at
\* most 1, is multiplied by 100
Percent(h) == IF Abs(h) <= 100 THEN 100 * h ELSE h

\* the value under a key of los is numerically parseable, there is a threshold of
\* that name, and the value's percent reading is strictly greater
AboveThreshold(ctx, rule, name) ==
    LET x == Get(ctx["los"], name)
    IN  /\ ToFloat(x).ok
        /\ "thresholds" \in DOMAIN rule
        /\ name \in DOMAIN rule.thresholds
        /\ rule.thresholds[name] # PyNone
        /\ Percent(ToFloat(x).h) > 100 * rule.thresholds[name].n

\* C12: LTVValidator returns ALERT exactly when one of ltv, cltv, hcltv is
\* numerically parseable, has a configured threshold of its name and, coerced to
\* percent, is strictly greater than that threshold; it returns PASS otherwise.
C12_LTVReference ==
    ( /\ Answered("evaluate")
      /\ probe.rule.validator = "LTVValidator" ) =>
        /\ ~IsRaised(answer.r)
        /\ answer.r.status =
               IF \E name \in {"ltv", "cltv", "hcltv"} : AboveThreshold(probe.ctx, probe.rule, name)
               THEN "ALERT" ELSE "PASS"

\* ltv 80 and cltv 85 are under their thresholds of 95, hcltv 0.96 is over: ALERT
C12_Witness ==
    /\ Answered("evaluate")
    /\ probe.rule.validator = "LTVValidator"
    /\ probe.ctx = LTVContext(PyInt(80), PyInt(85), PyFloat(96))
    /\ "thresholds" \in DOMAIN probe.rule
    /\ DOMAIN probe.rule.thresholds = {"ltv", "cltv", "hcltv"}
    /\ answer.r.status = "ALERT"

(***************************************************************************)
(* Properties of whole evaluations (under Spec)                            *)
(***************************************************************************)
\* C13: no validator raises, whatever the sections of the context hold (a null
\* credit_report section included): evaluate never ends with an exception and
\* returns a verdict for every rule with a registered validator.
C13_NoValidatorRaises ==
    /\ pc # "raised"
    /\ \A i \in 1..Len(trace) : trace[i].ev # "raise"
    /\ pc = "done" => DOMAIN results = RegisteredIds

\* validate_loan's step that builds the context of the evaluation to come
LoadsLoan == loan = NoLoan /\ loan' # NoLoan

\* C14: no step of evaluate, of the trigger matcher or of a validator changes the
\* evaluation context, the rule definitions (params and thresholds included) or
\* the field-path configuration.
C14_InputsUnchanged ==
    [][LoadsLoan \/ (context' = context /\ rules' = rules /\ fields' = fields)]_vars

\* two evaluations are over, and a validator has updated its details on the way
C14_Witness ==
    /\ pc = "done" /\ run = 2
    /\ \E id \in DOMAIN results : "fuzzy_score" \in DOMAIN results[id].details

(***************************************************************************)
(* Properties of the percent coercion and of the remaining validators      *)
(* (under SpecUnit)                                                        *)
(***************************************************************************)
\* the percent reading of a value, NoFloat for None and for what is no number
PercentReference(x) ==
    IF x.t = "None" \/ ~ToFloat(x).ok THEN NoFloat
    ELSE OkFloat(Percent(ToFloat(x).h))

\* C15: at each of the three sites (LTVValidator's to_pct, HomebuyerLTVValidator,
\* the GT branch of the trigger matcher) the coercion maps a number x to 100 x
\* exactly when |x| <= 1 and to x otherwise, and fails for None and for what is no
\* number; so the three sites agree.
C15_PercentCoercion ==
    Answered("coerce") => answer.p = PercentReference(probe.x)

\* an affirmative token: "yes", "y" or "true", whatever the case and the
\* surrounding whitespace
Affirmative(x) ==
    /\ x.t # "None"
    /\ Lower(Strip(Str(x))) \in {sYes, sY, sTrue}

\* more than one non-blank comma-separated liability name
SeveralNames(ctx) ==
    LET n == Get(ctx["los"], "names")
    IN  n.t = "str" /\ NameCount(n.s) > 1

\* the account type is empty or does not contain "mortgage"
NotAMortgage(ctx) ==
    LET ty == Get(ctx["los"], "type")
    IN  ~Truthy(ty) \/ ~Contains(Lower(Str(ty)), sMortgage)

\* C17: LienPayoffValidator acts only for an affirmative liabilities_will_be_paid_off,
\* with the affirmative tokens of the homebuyer validators ("yes", "y", "true"):
\* then ALERT for more than one liability name or an account type that is empty or
\* holds no "mortgage", PASS otherwise; PASS for every other value.  (And
\* HomebuyerProgramValidator gives PASS for these tokens, CONDITION otherwise.)
C17_LienPayoffReference ==
    /\ ( Answered("evaluate") /\ probe.rule.validator = "LienPayoffValidator" ) =>
          answer.r.status =
              IF Affirmative(Get(probe.ctx["los"], "paid"))
                 /\ (SeveralNames(probe.ctx) \/ NotAMortgage(probe.ctx))
              THEN "ALERT" ELSE "PASS"
    /\ ( Answered("evaluate") /\ probe.rule.validator = "HomebuyerProgramValidator" ) =>
          answer.r.status =
              IF Affirmative(Get(probe.ctx["los"], "cert")) THEN "PASS" ELSE "CONDITION"

\* one entry, holding the message, per verdict of the given status, in verdict order
RECURSIVE EntriesOf(_, _)
EntriesOf(verdicts, status) ==
    IF Len(verdicts) = 0 THEN <<>>
    ELSE (IF verdicts[1].status = status THEN <<[message |-> verdicts[1].message]>> ELSE <<>>)
         \o EntriesOf(Tail(verdicts), status)

\* C16: the object format_results returns has one entry in 'alerts' per ALERT
\* verdict and one in 'conditions' per CONDITION verdict, each with the verdict's
\* message, in verdict order; the counts are the lengths of the lists; PASS and
\* NOT_APPLICABLE verdicts add nothing; total_checks is the sum of the three
\* counts; with an ALERT verdict 'alerts' is not empty and total_checks > 0.
C16_FormatResultsCounts ==
    ( Answered("format") /\ ~IsRaised(answer.r) ) =>
        LET r == answer.r
            summary == r.loan_details.action_summary
        IN  /\ r.alerts = EntriesOf(probe.verdicts, "ALERT")
            /\ r.conditions = EntriesOf(probe.verdicts, "CONDITION")
            /\ summary.alerts_count = Len(r.alerts)
            /\ summary.conditions_count = Len(r.conditions)
            /\ summary.total_checks =
                   summary.alerts_count + summary.updates_count + summary.conditions_count
            /\ Len(r.alerts) + Len(r.conditions) =
                   Cardinality({i \in 1..Len(probe.verdicts) :
                                    probe.verdicts[i].status \in {"ALERT", "CONDITION"}})
            /\ (\E i \in 1..Len(probe.verdicts) : probe.verdicts[i].status = "ALERT") =>
                   (Len(r.alerts) > 0 /\ summary.total_checks > 0)

\* a CONDITION, a PASS and an ALERT verdict, formatted: one alert, one condition,
\* two checks
C16_Witness ==
    /\ Answered("format") /\ ~IsRaised(answer.r)
    /\ probe.verdicts = <<VerdictPool[3], VerdictPool[5], VerdictPool[1]>>
    /\ answer.r.alerts = <<[message |-> "ratio above limit"]>>
    /\ answer.r.conditions = <<[message |-> "certificate needed"]>>
    /\ answer.r.loan_details.action_summary.total_checks = 2

(***************************************************************************)
(* Properties of validate_loan (under Spec)                                *)
(***************************************************************************)
\* the rules of the list bound to CashoutSeasoningValidator
CashoutRules == {i \in 1..Len(rules) : rules[i].validator = "CashoutSeasoningValidator"}

\* C18: an evaluation started through validate_loan runs on a context whose
\* credit_report, title, appraisal and drive_report sections are empty mappings,
\* and every rule bound to CashoutSeasoningValidator ends with status
\* NOT_APPLICABLE, from the trigger or from the check for tradelines.
C18_LoanCashoutNotApplicable ==
    loan # NoLoan =>
        /\ context = LoanContext(loan)
        /\ \A s \in {"credit_report", "title", "appraisal", "drive_report"} :
               context[s] = PyDict(EmptyMap)
        /\ pc # "raised"
        /\ \A i \in CashoutRules :
               /\ rules[i].id \in DOMAIN results =>
                      results[rules[i].id].status = "NOT_APPLICABLE"
               /\ pc \in {"done", "returned"} => rules[i].id \in DOMAIN results

\* validate_loan has returned; one cash-out rule was stopped by its trigger, the
\* other ran its validator and found no tradelines
C18_Witness ==
    /\ loan # NoLoan
    /\ pc = "returned"
    /\ \E i, j \in 1..Len(trace) :
          /\ rules[i].validator = "CashoutSeasoningValidator" /\ trace[i].ev = "not_applicable"
          /\ rules[j].validator = "CashoutSeasoningValidator" /\ trace[j].ev = "evaluate"

=============================================================================
